---- MODULE Spec2Model ----
(***************************************************************************)
(* Model of the celvalidator package (src/celvalidator/validator.go).      *)
(*                                                                         *)
(* A Validator holds one configuration field, partialEval.  Validate       *)
(* builds a CEL environment from the record, then walks the rule tree      *)
(* depth first with a closure `eval` that shares the seen-set and the      *)
(* result list across all recursion levels.  The CEL engine (cel.NewEnv,   *)
(* env.Compile, env.Program, prg.Eval) is an external library: its         *)
(* outcomes are modelled as a fixed table over a small set of expression   *)
(* texts, one text (at least) per outcome the code distinguishes.          *)
(*                                                                         *)
(* Go strings are TLA+ strings, Go slices are sequences (index i of the    *)
(* Go loop is position i+1 of the sequence), a nil error is Nil.           *)
(***************************************************************************)
EXTENDS Integers, Sequences, FiniteSets, TLC

\* ------------------------------------------------------------------ bounds
\* The rule lists given to Validate hold at most MaxNodes entries, counting
\* the entries nested in Then lists at every depth.
MaxNodes == 3

\* The rule lists of one type of the repository hold at most MaxRepoNodes
\* entries in all, over its buckets and nested ones included.
MaxRepoNodes == 3

\* The rule list two concurrent Validate calls share holds at most
\* MaxSharedNodes entries, nested ones included.
MaxSharedNodes == 2

\* ------------------------------------------------------------ basic values
\* The nil error.
Nil == "<nil>"

\* The sentinel NewValidationMetadata puts in RuleIndex.
NoIndex == -1

\* ------------------------------------------------------- the CEL engine
\* Expression texts, named by what the engine does with them for the record
\* under validation (Sample{Active: true, Age: 21, Email: "test@example.com",
\* Details: {"type": "admin"}} of the test suite).
TxtTrue1 == "Age > 18"
TxtTrue2 == "Email != ''"
TxtFalse == "Age < 18"
TxtNonBool == "Age"
TxtRuntimeErr == "Details['target'] != 'guest'"
TxtCompileErr == "UnknownField == true"
TxtBuildErr == "<program construction fails>"

Texts ==
  {TxtTrue1, TxtTrue2, TxtFalse, TxtNonBool, TxtRuntimeErr, TxtCompileErr, TxtBuildErr}

\* cel.NewEnv inside buildEnv: the error it returns, Nil when the
\* environment is built.  envFails is the engine's outcome for the record.
buildEnv(envFails) == IF envFails THEN "env error" ELSE Nil

\* env.Compile(entry.Rule): iss.Err(), Nil when the text compiles.
Compile(rule) ==
  IF rule = TxtCompileErr THEN "compile error: " \o rule ELSE Nil

\* env.Program(ast): the error, Nil when the program is built.
Program(rule) ==
  IF rule = TxtBuildErr THEN "program error: " \o rule ELSE Nil

\* prg.Eval(vars): the value out.Value() (as its CEL literal) and the error.
Eval(rule) ==
  CASE rule = TxtTrue1 -> [out |-> "true", err |-> Nil]
    [] rule = TxtTrue2 -> [out |-> "true", err |-> Nil]
    [] rule = TxtFalse -> [out |-> "false", err |-> Nil]
    [] rule = TxtNonBool -> [out |-> "21", err |-> Nil]
    [] OTHER -> [out |-> Nil, err |-> "no such key: " \o rule]

\* ------------------------------------------------------------ data model
\* A RuleEntry value.
RuleEntry(rule, enabled, message, then) ==
  [Rule |-> rule, Enabled |-> enabled, FailureMessage |-> message, Then |-> then]

\* A ValidationMetadata value.
ValidationMetadata(structName, operation, chainPath, ruleIndex, parentRule) ==
  [StructName |-> structName, Operation |-> operation, ChainPath |-> chainPath,
   RuleIndex |-> ruleIndex, ParentRule |-> parentRule]

\* A ValidationResult value.
ValidationResult(rule, passed, error, message, metadata) ==
  [Rule |-> rule, Passed |-> passed, Error |-> error, Message |-> message,
   Metadata |-> metadata]

\* --------------------------------------------------------------- Validate
\* Variant of extendChainPath without the empty case: the separator is
\* always written.
extendChainPath_alwaysSeparator(current, next) == current \o " > " \o next

\* extendChainPath(current, next).
extendChainPath(current, next) ==
  IF current = "" THEN next ELSE current \o " > " \o next

\* Variant of skipEntry that does not consult the seen-set.
skipEntry_ignoresSeen(entry, seen) == ~entry.Enabled

\* The loop's skip test: a disabled entry, or a text already in seen.
skipEntry(entry, seen) == ~entry.Enabled \/ entry.Rule \in seen

\* The result appended when env.Compile fails.
compileErrorResult(entry, cerr, metadata, i) ==
  ValidationResult(entry.Rule, FALSE, cerr, "",
    ValidationMetadata(metadata.StructName, metadata.Operation,
                       metadata.ChainPath \o " > compileError", i,
                       metadata.ParentRule))

\* The result appended when env.Program fails.
programErrorResult(entry, perr, metadata, i) ==
  ValidationResult(entry.Rule, FALSE, perr, "",
    ValidationMetadata(metadata.StructName, metadata.Operation,
                       metadata.ChainPath \o " > programError", i,
                       metadata.ParentRule))

\* Variants of haltsOnSetupError that do not consult the flag: never
\* returning, always returning.
haltsOnSetupError_never(partialEval) == FALSE

haltsOnSetupError_always(partialEval) == TRUE

\* `if !v.partialEval { return err }` after a compile or program failure.
haltsOnSetupError(partialEval) == ~partialEval

\* Variant of passedOf that does not look at the value.
passedOf_ignoresValue(ev) == ev.err = Nil

\* passed := err == nil && out.Value() == true
passedOf(ev) == ev.err = Nil /\ ev.out = "true"

\* Variant of resultMessage that copies the message whatever passed is.
resultMessage_always(passed, entry) == entry.FailureMessage

\* `if !passed { validationResult.Message = entry.FailureMessage }`
resultMessage(passed, entry) == IF ~passed THEN entry.FailureMessage ELSE ""

\* Variant of executedResult that leaves Error nil.
executedResult_dropsError(entry, ev, metadata, i) ==
  ValidationResult(entry.Rule, ev.err = Nil /\ ev.out = "true", Nil,
    IF ev.err = Nil /\ ev.out = "true" THEN "" ELSE entry.FailureMessage,
    ValidationMetadata(metadata.StructName, metadata.Operation,
                       metadata.ChainPath, i, metadata.ParentRule))

\* Variant of executedResult that keeps the RuleIndex of the metadata it was
\* given.
executedResult_keepsMetadataIndex(entry, ev, metadata, i) ==
  ValidationResult(entry.Rule, ev.err = Nil /\ ev.out = "true", ev.err,
    IF ev.err = Nil /\ ev.out = "true" THEN "" ELSE entry.FailureMessage,
    metadata)

\* The result appended for an entry whose program was executed.
executedResult(entry, ev, metadata, i) ==
  ValidationResult(entry.Rule, passedOf(ev), ev.err,
    resultMessage(passedOf(ev), entry),
    ValidationMetadata(metadata.StructName, metadata.Operation,
                       metadata.ChainPath, i, metadata.ParentRule))

\* Variant of descends that does not require passed.
descends_withoutPassed(passed, entry) == Len(entry.Then) > 0

\* `if passed && len(entry.Then) > 0`
descends(passed, entry) == passed /\ Len(entry.Then) > 0

\* The metadata eval is called with for entry.Then.
childMetadata(metadata, entry) ==
  ValidationMetadata(metadata.StructName, metadata.Operation,
                     extendChainPath(metadata.ChainPath, "then"), NoIndex,
                     entry.Rule)

\* Variant of propagatesChildError that drops the error of the recursive call.
propagatesChildError_never(cerr, partialEval) == FALSE

\* `err != nil && !v.partialEval` on the error the recursive call returned.
propagatesChildError(cerr, partialEval) == cerr # Nil /\ ~partialEval

\* The state the closure eval shares across recursion levels: the result
\* list and the seen-set.  visited is a ghost: visited[k] is the position, in
\* the rule tree given to Validate, of the entry results[k] was produced for
\* (the indices, from 1, of the entry and of its ancestors, outermost first).
evalState(results, seen, visited) ==
  [results |-> results, seen |-> seen, visited |-> visited]

\* Variant of eval that appends an executed entry's result after the
\* recursion into its Then list instead of before it.
RECURSIVE eval_resultAfterChildren(_, _, _, _, _, _)
eval_resultAfterChildren(partialEval, entries, i, metadata, path, st) ==
  IF i > Len(entries) THEN [st |-> st, err |-> Nil]
  ELSE
    LET entry == entries[i]
        here == path \o <<i>>
        marked == [st EXCEPT !.seen = @ \cup {entry.Rule}]
        add(base, r) == [base EXCEPT !.results = Append(@, r),
                                     !.visited = Append(@, here)]
    IN
      IF ~entry.Enabled \/ entry.Rule \in st.seen
      THEN eval_resultAfterChildren(partialEval, entries, i + 1, metadata, path, st)
      ELSE IF Compile(entry.Rule) # Nil
      THEN
        LET st2 == add(marked, compileErrorResult(entry, Compile(entry.Rule), metadata, i - 1))
        IN IF ~partialEval
           THEN [st |-> st2, err |-> Compile(entry.Rule)]
           ELSE eval_resultAfterChildren(partialEval, entries, i + 1, metadata, path, st2)
      ELSE IF Program(entry.Rule) # Nil
      THEN
        LET st2 == add(marked, programErrorResult(entry, Program(entry.Rule), metadata, i - 1))
        IN IF ~partialEval
           THEN [st |-> st2, err |-> Program(entry.Rule)]
           ELSE eval_resultAfterChildren(partialEval, entries, i + 1, metadata, path, st2)
      ELSE
        LET ev == Eval(entry.Rule)
            r == ValidationResult(entry.Rule, ev.err = Nil /\ ev.out = "true", ev.err,
                   IF ev.err = Nil /\ ev.out = "true" THEN "" ELSE entry.FailureMessage,
                   ValidationMetadata(metadata.StructName, metadata.Operation,
                                      metadata.ChainPath, i - 1, metadata.ParentRule))
        IN IF r.Passed /\ Len(entry.Then) > 0
           THEN
             LET sub == eval_resultAfterChildren(partialEval, entry.Then, 1,
                          ValidationMetadata(metadata.StructName, metadata.Operation,
                            IF metadata.ChainPath = "" THEN "then"
                            ELSE metadata.ChainPath \o " > then",
                            NoIndex, entry.Rule),
                          here, marked)
             IN IF sub.err # Nil /\ ~partialEval
                THEN [st |-> add(sub.st, r), err |-> sub.err]
                ELSE eval_resultAfterChildren(partialEval, entries, i + 1, metadata,
                                              path, add(sub.st, r))
           ELSE eval_resultAfterChildren(partialEval, entries, i + 1, metadata, path,
                                         add(marked, r))

\* Variant of eval that marks a text as seen only once it has compiled and
\* built.
RECURSIVE eval_marksAfterSetup(_, _, _, _, _, _)
eval_marksAfterSetup(partialEval, entries, i, metadata, path, st) ==
  IF i > Len(entries) THEN [st |-> st, err |-> Nil]
  ELSE
    LET entry == entries[i]
        here == path \o <<i>>
        marked == [st EXCEPT !.seen = @ \cup {entry.Rule}]
        add(r) == [marked EXCEPT !.results = Append(@, r),
                                 !.visited = Append(@, here)]
        addUnmarked(r) == [st EXCEPT !.results = Append(@, r),
                                     !.visited = Append(@, here)]
    IN
      IF skipEntry(entry, st.seen)
      THEN eval_marksAfterSetup(partialEval, entries, i + 1, metadata, path, st)
      ELSE IF Compile(entry.Rule) # Nil
      THEN
        LET st2 == addUnmarked(compileErrorResult(entry, Compile(entry.Rule), metadata, i - 1))
        IN IF haltsOnSetupError(partialEval)
           THEN [st |-> st2, err |-> Compile(entry.Rule)]
           ELSE eval_marksAfterSetup(partialEval, entries, i + 1, metadata, path, st2)
      ELSE IF Program(entry.Rule) # Nil
      THEN
        LET st2 == addUnmarked(programErrorResult(entry, Program(entry.Rule), metadata, i - 1))
        IN IF haltsOnSetupError(partialEval)
           THEN [st |-> st2, err |-> Program(entry.Rule)]
           ELSE eval_marksAfterSetup(partialEval, entries, i + 1, metadata, path, st2)
      ELSE
        LET ev == Eval(entry.Rule)
            st2 == add(executedResult(entry, ev, metadata, i - 1))
        IN IF descends(passedOf(ev), entry)
           THEN
             LET sub == eval_marksAfterSetup(partialEval, entry.Then, 1,
                             childMetadata(metadata, entry), here, st2)
             IN IF propagatesChildError(sub.err, partialEval)
                THEN sub
                ELSE eval_marksAfterSetup(partialEval, entries, i + 1, metadata, path, sub.st)
           ELSE eval_marksAfterSetup(partialEval, entries, i + 1, metadata, path, st2)

\* The closure eval, from loop index i (from 1) of entries on: the shared
\* state it leaves and the error it returns.  path is the position of the
\* entry whose Then list entries is (<<>> for the top-level list).
RECURSIVE eval(_, _, _, _, _, _)
eval(partialEval, entries, i, metadata, path, st) ==
  IF i > Len(entries) THEN [st |-> st, err |-> Nil]
  ELSE
    LET entry == entries[i]
        here == path \o <<i>>
        marked == [st EXCEPT !.seen = @ \cup {entry.Rule}]
        add(r) == [marked EXCEPT !.results = Append(@, r),
                                 !.visited = Append(@, here)]
    IN
      IF skipEntry(entry, st.seen)
      THEN eval(partialEval, entries, i + 1, metadata, path, st)
      ELSE IF Compile(entry.Rule) # Nil
      THEN
        LET st2 == add(compileErrorResult(entry, Compile(entry.Rule), metadata, i - 1))
        IN IF haltsOnSetupError(partialEval)
           THEN [st |-> st2, err |-> Compile(entry.Rule)]
           ELSE eval(partialEval, entries, i + 1, metadata, path, st2)
      ELSE IF Program(entry.Rule) # Nil
      THEN
        LET st2 == add(programErrorResult(entry, Program(entry.Rule), metadata, i - 1))
        IN IF haltsOnSetupError(partialEval)
           THEN [st |-> st2, err |-> Program(entry.Rule)]
           ELSE eval(partialEval, entries, i + 1, metadata, path, st2)
      ELSE
        LET ev == Eval(entry.Rule)
            st2 == add(executedResult(entry, ev, metadata, i - 1))
        IN IF descends(passedOf(ev), entry)
           THEN
             LET sub == eval(partialEval, entry.Then, 1,
                             childMetadata(metadata, entry), here, st2)
             IN IF propagatesChildError(sub.err, partialEval)
                THEN sub
                ELSE eval(partialEval, entries, i + 1, metadata, path, sub.st)
           ELSE eval(partialEval, entries, i + 1, metadata, path, st2)

\* Variant of Validate that does not check the error of buildEnv.
Validate_ignoresEnvError(partialEval, envFails, rules, metadata) ==
  LET r == eval(partialEval, rules, 1, metadata, <<>>, evalState(<<>>, {}, <<>>))
  IN [results |-> r.st.results, err |-> r.err, seen |-> r.st.seen,
      visited |-> r.st.visited]

\* Validate(obj, rules, metadata) on a Validator with the given partialEval:
\* the results and the overall error.  When buildEnv fails the results are
\* the nil slice (length 0, written <<>>) and nothing is evaluated.
Validate(partialEval, envFails, rules, metadata) ==
  IF buildEnv(envFails) # Nil
  THEN [results |-> <<>>, err |-> buildEnv(envFails), seen |-> {}, visited |-> <<>>]
  ELSE LET r == eval(partialEval, rules, 1, metadata, <<>>, evalState(<<>>, {}, <<>>))
       IN [results |-> r.st.results, err |-> r.err, seen |-> r.st.seen,
           visited |-> r.st.visited]

\* ------------------------------------------------------------ GetRulesFor
\* The reserved bucket name.
DefaultBucket == "Default"

\* A record is given by the name of its struct type and by whether the value
\* passed is a pointer to the struct.
Record(typeName, isPointer) == [type |-> typeName, pointer |-> isPointer]

\* No record.
NoObject == Record("", FALSE)

\* A RuleSetMap is a function from type names to functions from bucket names
\* to rule lists; a key is present when it is in the domain.
EmptyRepo == [t \in {} |-> <<>>]

\* getStructName(obj): reflect.TypeOf(obj), dereferenced when it is a pointer,
\* and its Name().
getStructName(o) == o.type

\* Variant of lookupStructRules that falls back on the only type of the
\* repository when the record's type is missing.
lookupStructRules_fallsBackOnOnlyType(name, rs) ==
  IF name \in DOMAIN rs THEN [ok |-> TRUE, structRules |-> rs[name]]
  ELSE IF Cardinality(DOMAIN rs) = 1
       THEN [ok |-> TRUE, structRules |-> rs[CHOOSE t \in DOMAIN rs : TRUE]]
       ELSE [ok |-> FALSE, structRules |-> [b \in {} |-> <<>>]]

\* `structRules, ok := rules[name]`
lookupStructRules(name, rs) ==
  IF name \in DOMAIN rs THEN [ok |-> TRUE, structRules |-> rs[name]]
  ELSE [ok |-> FALSE, structRules |-> [b \in {} |-> <<>>]]

\* `defaultRules, ok := structRules["Default"]`, `opRules, ok :=
\* structRules[operation]`
lookupBucket(structRules, key) ==
  IF key \in DOMAIN structRules THEN [ok |-> TRUE, bucket |-> structRules[key]]
  ELSE [ok |-> FALSE, bucket |-> <<>>]

\* Variant of keepsChild that keeps every child.
keepsChild_always(child) == TRUE

\* `if child.Enabled` in filterEnabledRules.
keepsChild(child) == child.Enabled

\* Variant of filterEnabledRules that copies the entry without its children.
filterEnabledRules_dropsThen(rule) ==
  RuleEntry(rule.Rule, rule.Enabled, rule.FailureMessage, <<>>)

\* filterEnabledRules(rule): a new entry with the rule's text, flag and
\* message and, as Then, the filtered enabled children (nil, written <<>>,
\* when there is none).
RECURSIVE filterEnabledRules(_)
RECURSIVE filterChildren(_, _)
filterChildren(then, j) ==
  IF j > Len(then) THEN <<>>
  ELSE IF keepsChild(then[j])
       THEN <<filterEnabledRules(then[j])>> \o filterChildren(then, j + 1)
       ELSE filterChildren(then, j + 1)

filterEnabledRules(rule) ==
  RuleEntry(rule.Rule, rule.Enabled, rule.FailureMessage,
            filterChildren(rule.Then, 1))

\* Variant of addsRule without the seen test.
addsRule_ignoresSeen(r, seenTexts) == r.Enabled

\* `if _, exists := seen[r.Rule]; !exists && r.Enabled`
addsRule(r, seenTexts) == r.Rule \notin seenTexts /\ r.Enabled

\* The locals of GetRulesFor: merged and seen.  origins is a ghost:
\* origins[k] is the loop ("Default" for the first, "operation" for the
\* second), the bucket name and the index (from 1) of the repository entry
\* merged[k] was built from.
mergeState(mergedList, seenTexts, from) ==
  [merged |-> mergedList, seen |-> seenTexts, origins |-> from]

\* Variant of mergeBucket that marks the text of every entry it meets as
\* seen, added or not.
RECURSIVE mergeBucket_marksEveryText(_, _, _, _, _)
mergeBucket_marksEveryText(bucket, loop, key, j, st) ==
  IF j > Len(bucket) THEN st
  ELSE IF addsRule(bucket[j], st.seen)
       THEN mergeBucket_marksEveryText(bucket, loop, key, j + 1,
              mergeState(Append(st.merged, filterEnabledRules(bucket[j])),
                         st.seen \cup {bucket[j].Rule},
                         Append(st.origins,
                                [loop |-> loop, bucket |-> key, index |-> j])))
       ELSE mergeBucket_marksEveryText(bucket, loop, key, j + 1,
              mergeState(st.merged, st.seen \cup {bucket[j].Rule}, st.origins))

\* One of the two loops of GetRulesFor, from index j (from 1) of the bucket on.
RECURSIVE mergeBucket(_, _, _, _, _)
mergeBucket(bucket, loop, key, j, st) ==
  IF j > Len(bucket) THEN st
  ELSE IF addsRule(bucket[j], st.seen)
       THEN mergeBucket(bucket, loop, key, j + 1,
              mergeState(Append(st.merged, filterEnabledRules(bucket[j])),
                         st.seen \cup {bucket[j].Rule},
                         Append(st.origins,
                                [loop |-> loop, bucket |-> key, index |-> j])))
       ELSE mergeBucket(bucket, loop, key, j + 1, st)

\* Variant of GetRulesFor that reads the operation bucket first.
GetRulesFor_operationFirst(o, op, rs) ==
  LET found == lookupStructRules(getStructName(o), rs)
      start == mergeState(<<>>, {}, <<>>)
  IN IF ~found.ok THEN start
     ELSE
       LET ops == lookupBucket(found.structRules, op)
           afterOp == IF ops.ok
                      THEN mergeBucket(ops.bucket, "operation", op, 1, start)
                      ELSE start
           defaults == lookupBucket(found.structRules, DefaultBucket)
       IN IF defaults.ok
          THEN mergeBucket(defaults.bucket, "Default", DefaultBucket, 1, afterOp)
          ELSE afterOp

\* GetRulesFor(obj, operation, rules): the locals when it returns merged.
GetRulesFor(o, op, rs) ==
  LET found == lookupStructRules(getStructName(o), rs)
      start == mergeState(<<>>, {}, <<>>)
  IN IF ~found.ok THEN start
     ELSE
       LET defaults == lookupBucket(found.structRules, DefaultBucket)
           afterDefault == IF defaults.ok
                           THEN mergeBucket(defaults.bucket, "Default", DefaultBucket, 1, start)
                           ELSE start
           ops == lookupBucket(found.structRules, op)
       IN IF ops.ok THEN mergeBucket(ops.bucket, "operation", op, 1, afterDefault)
          ELSE afterDefault

\* --------------------------------------------------- NewValidationMetadata
\* Variant of inferOperation that never infers the only bucket's name.
inferOperation_alwaysDefault(op, structRules) ==
  IF op = "" THEN DefaultBucket ELSE op

\* The operation NewValidationMetadata settles on for a type that is in the
\* repository: with an empty operation, the key of the only bucket when
\* there is exactly one, "Default" otherwise.
inferOperation(op, structRules) ==
  IF op = ""
  THEN IF Cardinality(DOMAIN structRules) = 1
       THEN CHOOSE k \in DOMAIN structRules : TRUE
       ELSE DefaultBucket
  ELSE op

\* NewValidationMetadata(obj, operation, rules).
NewValidationMetadata(o, op, rs) ==
  LET structName == getStructName(o)
      found == lookupStructRules(structName, rs)
  IN ValidationMetadata(structName,
       IF found.ok THEN inferOperation(op, found.structRules) ELSE DefaultBucket,
       "", NoIndex, "")

\* ----------------------------------------------------------------- inputs
\* The configured failure message of the catalogue's entries: every text
\* but TxtTrue2 comes with one.
MessageOf(rule) == IF rule = TxtTrue2 THEN "" ELSE "failed: " \o rule

\* The texts that also occur in a disabled entry: one that would pass and one
\* that would not compile.
DisabledTexts == {TxtTrue1, TxtCompileErr}

\* The entries (without their Then lists) the rule lists are built from.
Labels ==
  {[Rule |-> t, Enabled |-> TRUE, FailureMessage |-> MessageOf(t)] : t \in Texts}
  \cup
  {[Rule |-> t, Enabled |-> FALSE, FailureMessage |-> MessageOf(t)] :
     t \in DisabledTexts}

\* A rule tree is chosen as its entries in depth-first order, labels[k], with
\* the nesting depth of each, depths[k] (0 for a top-level entry): the first
\* entry is top-level and an entry is at most one level below the entry
\* before it.
WellNested(depths, n) ==
  /\ n > 0 => depths[1] = 0
  /\ \A k \in 1..(n - 1) : depths[k + 1] <= depths[k] + 1

\* The rule list made of the entries lo..hi, which are the entries of one
\* sibling list of depth d together with their descendants.
RECURSIVE RuleList(_, _, _, _, _)
RuleList(labels, depths, lo, hi, d) ==
  IF lo > hi THEN <<>>
  ELSE
    LET later == {j \in (lo + 1)..hi : depths[j] = d}
        next == IF later = {} THEN hi + 1
                ELSE CHOOSE j \in later : \A j2 \in later : j <= j2
    IN <<RuleEntry(labels[lo].Rule, labels[lo].Enabled, labels[lo].FailureMessage,
                   RuleList(labels, depths, lo + 1, next - 1, d + 1))>>
       \o RuleList(labels, depths, next, hi, d)

\* The metadata Validate is called with: what NewValidationMetadata returns,
\* and a context a caller built by hand.
InputMetadata ==
  {ValidationMetadata("Sample", "Create", "", NoIndex, ""),
   ValidationMetadata("Sample", "Create", "root", 7, "Parent")}

\* ------------------------------------------------------------------ state
VARIABLES
  partialEval,   \* Validator.partialEval
  phase,         \* "idle": no call in progress; "returned": a Validate call returned
  envFails,      \* last call: whether cel.NewEnv failed for the record
  rules,         \* last call: the rules argument
  metadata,      \* last call: the metadata argument
  results,       \* last call: the returned results
  err,           \* last call: the returned error
  seen,          \* last call: the seen-set when the call returned
  visited,       \* last call: ghost, see evalState
  repo,          \* the RuleSetMap the caller holds
  obj,           \* last GetRulesFor / NewValidationMetadata call: the record
  operation,     \* last GetRulesFor / NewValidationMetadata call: the operation
  merged,        \* last GetRulesFor call: the returned list
  origins,       \* last GetRulesFor call: ghost, see mergeState
  mergedAgain,   \* the list a second GetRulesFor call with the same arguments returned
  made,          \* last NewValidationMetadata call: the returned metadata
  calls,         \* the Validate calls in progress: the locals of each
  raw            \* last Validate call on unfiltered buckets: rules, results, error

validateVars == <<envFails, rules, metadata, results, err, seen, visited>>

resolverVars == <<repo, obj, operation, merged, origins, mergedAgain, made>>

vars == <<partialEval, phase, validateVars, resolverVars, calls, raw>>

\* No Validate call is in progress step by step.
NoCalls == <<>>

\* What a Validate call on a rule list returned, with the list.
RawCall(rs, res, e) == [rules |-> rs, results |-> res, err |-> e]

\* No Validate call on unfiltered buckets has been made.
NoRawCall == RawCall(<<>>, <<>>, Nil)

\* No Validate call has been made, or its return values were dropped.
NoValidateCall ==
  /\ envFails = FALSE
  /\ rules = <<>>
  /\ metadata = ValidationMetadata("", "", "", NoIndex, "")
  /\ results = <<>>
  /\ err = Nil
  /\ seen = {}
  /\ visited = <<>>

\* No GetRulesFor or NewValidationMetadata call has been made, or its return
\* value was dropped.
NoResolverCall ==
  /\ obj = NoObject
  /\ operation = ""
  /\ merged = <<>>
  /\ origins = <<>>
  /\ mergedAgain = <<>>
  /\ made = ValidationMetadata("", "", "", NoIndex, "")

\* NewValidator(opts...): with or without WithPartialEval.  The rules given
\* to Validate are built by the caller; no repository is involved.
Init ==
  /\ partialEval \in BOOLEAN
  /\ phase = "idle"
  /\ NoValidateCall
  /\ repo = EmptyRepo
  /\ NoResolverCall
  /\ calls = NoCalls
  /\ raw = NoRawCall

\* One Validate call, from its arguments to its return.  The call is
\* synchronous: the caller holds its return values until it drops them.
DoValidate ==
  /\ phase = "idle"
  /\ \E f \in BOOLEAN, md \in InputMetadata, n \in 0..MaxNodes :
     \E depths \in [1..n -> 0..(MaxNodes - 1)], labels \in [1..n -> Labels] :
       /\ WellNested(depths, n)
       /\ LET rs == RuleList(labels, depths, 1, n, 0)
              ret == Validate(partialEval, f, rs, md)
          IN
          /\ phase' = "returned"
          /\ envFails' = f
          /\ rules' = rs
          /\ metadata' = md
          /\ results' = ret.results
          /\ err' = ret.err
          /\ seen' = ret.seen
          /\ visited' = ret.visited
          /\ UNCHANGED <<raw, calls, partialEval, resolverVars>>

\* The caller is done with the returned values; the Validator, which holds
\* nothing of the call, is ready for the next one.
Discard ==
  /\ phase = "returned"
  /\ phase' = "idle"
  /\ envFails' = FALSE
  /\ rules' = <<>>
  /\ metadata' = ValidationMetadata("", "", "", NoIndex, "")
  /\ results' = <<>>
  /\ err' = Nil
  /\ seen' = {}
  /\ visited' = <<>>
  /\ UNCHANGED <<raw, calls, partialEval, resolverVars>>

Next == DoValidate \/ Discard

Spec == Init /\ [][Next]_vars

\* ------------------------------------------- the repository and its callers
\* The message a repository entry of the operation bucket gives a text the
\* Default bucket also holds.
OverrideMessage == "overridden"

\* The entries (without their Then lists) the repository is built from: two
\* texts enabled and disabled, one of them also with another message, and a
\* third text.
RepoLabels ==
  {[Rule |-> TxtTrue1, Enabled |-> TRUE, FailureMessage |-> MessageOf(TxtTrue1)],
   [Rule |-> TxtTrue1, Enabled |-> FALSE, FailureMessage |-> MessageOf(TxtTrue1)],
   [Rule |-> TxtTrue1, Enabled |-> TRUE, FailureMessage |-> OverrideMessage],
   [Rule |-> TxtTrue2, Enabled |-> TRUE, FailureMessage |-> MessageOf(TxtTrue2)],
   [Rule |-> TxtTrue2, Enabled |-> FALSE, FailureMessage |-> MessageOf(TxtTrue2)],
   [Rule |-> TxtFalse, Enabled |-> TRUE, FailureMessage |-> MessageOf(TxtFalse)]}

\* The operation bucket the repository may hold beside "Default".
CreateBucket == "Create"

\* The operations callers ask for: none, the reserved name, a bucket the
\* repository may hold and one it never holds.
Operations == {"", DefaultBucket, CreateBucket, "Update"}

\* The type whose rules vary, and a type whose rules are always there.
SampleType == "Sample"
OrderType == "Order"

\* The records callers pass: a Sample, a pointer to a Sample, and a record
\* of a type the repository never holds.
Objects ==
  {Record(SampleType, FALSE), Record(SampleType, TRUE), Record("User", FALSE)}

\* The rules of the Order type.
OrderRules ==
  [b \in {DefaultBucket} |->
     <<RuleEntry(TxtNonBool, TRUE, MessageOf(TxtNonBool), <<>>)>>]

\* The buckets of a type: "Default" and "Create", each present or not.
Buckets(hasDefault, defaultRules, hasCreate, createRules) ==
  [b \in (IF hasDefault THEN {DefaultBucket} ELSE {})
         \cup (IF hasCreate THEN {CreateBucket} ELSE {}) |->
     IF b = DefaultBucket THEN defaultRules ELSE createRules]

\* A repository: the Order type, and the Sample type when hasSample.
Repository(hasSample, sampleBuckets) ==
  [t \in {OrderType} \cup (IF hasSample THEN {SampleType} ELSE {}) |->
     IF t = OrderType THEN OrderRules ELSE sampleBuckets]

\* The caller has built a repository and holds a validator made by
\* NewValidator().  The Sample rules are chosen as for DoValidate, the first
\* split entries going to the Default bucket and the others to the Create
\* bucket.
InitResolver ==
  /\ partialEval = FALSE
  /\ phase = "idle"
  /\ NoValidateCall
  /\ NoResolverCall
  /\ calls = NoCalls
  /\ raw = NoRawCall
  /\ \E hasSample, hasDefault, hasCreate \in BOOLEAN, n \in 0..MaxRepoNodes :
       \E depths \in [1..n -> 0..(MaxRepoNodes - 1)], labels \in [1..n -> RepoLabels],
          split \in 0..n :
         /\ WellNested(depths, n)
         /\ split < n => depths[split + 1] = 0
         /\ ~hasSample => (n = 0 /\ ~hasDefault /\ ~hasCreate)
         /\ ~hasDefault => split = 0
         /\ ~hasCreate => split = n
         /\ repo = Repository(hasSample,
                     Buckets(hasDefault, RuleList(labels, depths, 1, split, 0),
                             hasCreate, RuleList(labels, depths, split + 1, n, 0)))

\* ------------------------------------------------- GetRulesFor in memory
\* A slice value: the address of its backing array (0 for nil), its length
\* and its capacity.  The memory is the sequence of the arrays allocated so
\* far; the address of an array is its index.
Slice(addr, len, cap) == [addr |-> addr, len |-> len, cap |-> cap]

\* The nil slice.
NilSlice == Slice(0, 0, 0)

\* A RuleEntry as it lies in an array: the Then field is a slice value.
Cell(rule, enabled, message, then) ==
  [Rule |-> rule, Enabled |-> enabled, FailureMessage |-> message, Then |-> then]

\* The zero RuleEntry, which fills the unused capacity of an array.
ZeroCell == Cell("", FALSE, "", NilSlice)

\* The rule list rs laid out in memory, from entry j on, the cells of the
\* entries before j being built already: each Then list gets an array of its
\* own, and an empty list is the nil slice.
RECURSIVE storeList(_, _, _, _)
storeList(rs, j, mem, cells) ==
  IF j > Len(rs)
  THEN IF cells = <<>> THEN [mem |-> mem, slice |-> NilSlice]
       ELSE [mem |-> Append(mem, cells),
             slice |-> Slice(Len(mem) + 1, Len(cells), Len(cells))]
  ELSE LET sub == storeList(rs[j].Then, 1, mem, <<>>)
       IN storeList(rs, j + 1, sub.mem,
                    Append(cells, Cell(rs[j].Rule, rs[j].Enabled,
                                       rs[j].FailureMessage, sub.slice)))

\* The buckets `keys` of one type laid out in memory: root maps each bucket
\* name to the slice of its rules.
RECURSIVE storeBuckets(_, _, _, _)
storeBuckets(buckets, keys, mem, root) ==
  IF keys = {} THEN [mem |-> mem, root |-> root]
  ELSE LET k == CHOOSE x \in keys : TRUE
           st == storeList(buckets[k], 1, mem, <<>>)
       IN storeBuckets(buckets, keys \ {k}, st.mem, root @@ (k :> st.slice))

\* The types `names` of a repository laid out in memory: root is the
\* RuleSetMap, from type names to bucket names to slices.
RECURSIVE storeTypes(_, _, _, _)
storeTypes(rs, names, mem, root) ==
  IF names = {} THEN [mem |-> mem, root |-> root]
  ELSE LET t == CHOOSE x \in names : TRUE
           st == storeBuckets(rs[t], DOMAIN rs[t], mem, [b \in {} |-> NilSlice])
       IN storeTypes(rs, names \ {t}, st.mem, root @@ (t :> st.root))

\* A repository laid out in memory.
Store(rs) == storeTypes(rs, DOMAIN rs, <<>>, [t \in {} |-> NilSlice])

\* The rule list a slice holds, read from memory.
RECURSIVE Value(_, _)
Value(slice, mem) ==
  IF slice.len = 0 THEN <<>>
  ELSE [j \in 1..slice.len |->
          RuleEntry(mem[slice.addr][j].Rule, mem[slice.addr][j].Enabled,
                    mem[slice.addr][j].FailureMessage,
                    Value(mem[slice.addr][j].Then, mem))]

\* The repository a RuleSetMap holds, read from memory.
Load(root, mem) ==
  [t \in DOMAIN root |-> [b \in DOMAIN root[t] |-> Value(root[t][b], mem)]]

\* append(slice, x): within the capacity the element is written into the
\* backing array; beyond it a new array of twice the capacity (of 1 for an
\* empty one) is allocated and the elements are copied.
goAppend(slice, x, mem) ==
  IF slice.len < slice.cap
  THEN [mem |-> [mem EXCEPT ![slice.addr][slice.len + 1] = x],
        slice |-> Slice(slice.addr, slice.len + 1, slice.cap)]
  ELSE LET newcap == IF slice.cap = 0 THEN 1 ELSE 2 * slice.cap
           array == [j \in 1..newcap |->
                       IF j <= slice.len THEN mem[slice.addr][j]
                       ELSE IF j = slice.len + 1 THEN x ELSE ZeroCell]
       IN [mem |-> Append(mem, array),
           slice |-> Slice(Len(mem) + 1, slice.len + 1, newcap)]

\* Variant of newFilteredThen that filters in place: the Then of the copy
\* starts as rule.Then[:0], on the backing array of the entry.
newFilteredThen_reusesBackingArray(rule) ==
  Slice(rule.Then.addr, 0, rule.Then.cap)

\* `filtered := RuleEntry{Rule: ..., Enabled: ..., FailureMessage: ...}`:
\* the Then field of the new entry is the nil slice.
newFilteredThen(rule) == NilSlice

\* filterEnabledRules(rule) in memory: rule is a copy of an entry (its Then
\* shares the entry's backing array); the loop reads child j from that array
\* and appends the filtered copy of an enabled child to filtered.Then.
RECURSIVE filterEnabledRulesInMemory(_, _)
RECURSIVE filterChildrenInMemory(_, _, _, _)
filterChildrenInMemory(then, j, filteredThen, mem) ==
  IF j > then.len THEN [mem |-> mem, slice |-> filteredThen]
  ELSE LET child == mem[then.addr][j]
       IN IF keepsChild(child)
          THEN LET sub == filterEnabledRulesInMemory(child, mem)
                   app == goAppend(filteredThen, sub.entry, sub.mem)
               IN filterChildrenInMemory(then, j + 1, app.slice, app.mem)
          ELSE filterChildrenInMemory(then, j + 1, filteredThen, mem)

filterEnabledRulesInMemory(rule, mem) ==
  LET r == filterChildrenInMemory(rule.Then, 1, newFilteredThen(rule), mem)
  IN [mem |-> r.mem,
      entry |-> Cell(rule.Rule, rule.Enabled, rule.FailureMessage, r.slice)]

\* One of the two loops of GetRulesFor in memory, from index j (from 1) of
\* the bucket on; st holds the memory and the locals merged and seen.
RECURSIVE mergeBucketInMemory(_, _, _)
mergeBucketInMemory(bucket, j, st) ==
  IF j > bucket.len THEN st
  ELSE LET r == st.mem[bucket.addr][j]
       IN IF addsRule(r, st.seen)
          THEN LET filtered == filterEnabledRulesInMemory(r, st.mem)
                   app == goAppend(st.merged, filtered.entry, filtered.mem)
               IN mergeBucketInMemory(bucket, j + 1,
                    [mem |-> app.mem, merged |-> app.slice,
                     seen |-> st.seen \cup {r.Rule}])
          ELSE mergeBucketInMemory(bucket, j + 1, st)

\* GetRulesFor(obj, operation, rules) in memory: the memory it leaves and
\* the slice it returns.
GetRulesForInMemory(o, op, root, mem) ==
  LET found == lookupStructRules(getStructName(o), root)
      start == [mem |-> mem, merged |-> NilSlice, seen |-> {}]
  IN IF ~found.ok THEN start
     ELSE
       LET defaults == lookupBucket(found.structRules, DefaultBucket)
           afterDefault == IF defaults.ok
                           THEN mergeBucketInMemory(defaults.bucket, 1, start)
                           ELSE start
           ops == lookupBucket(found.structRules, op)
       IN IF ops.ok THEN mergeBucketInMemory(ops.bucket, 1, afterDefault)
          ELSE afterDefault

\* A GetRulesFor call on a repository laid out in memory: the repository
\* and the returned list as they are read from memory when the call has
\* returned.
CallGetRulesFor(o, op, stored) ==
  LET ret == GetRulesForInMemory(o, op, stored.root, stored.mem)
  IN [repo |-> Load(stored.root, ret.mem), merged |-> Value(ret.merged, ret.mem)]

\* merged := GetRulesFor(obj, operation, rules).  The repository is what
\* the call leaves of it in memory.
DoGetRulesFor ==
  /\ phase = "idle"
  /\ LET stored == Store(repo)
     IN \E o \in Objects, op \in Operations :
          LET ret == GetRulesFor(o, op, repo)
          IN /\ obj' = o
             /\ operation' = op
             /\ merged' = ret.merged
             /\ origins' = ret.origins
             /\ repo' = CallGetRulesFor(o, op, stored).repo
  /\ phase' = "resolved"
  /\ UNCHANGED <<raw, calls, partialEval, validateVars, mergedAgain, made>>

\* The caller asks again, with the same record and operation, on the
\* repository as the first call left it: the list is the one the call
\* builds in memory.
DoGetRulesForAgain ==
  /\ phase = "resolved"
  /\ LET ret == CallGetRulesFor(obj, operation, Store(repo))
     IN /\ mergedAgain' = ret.merged
        /\ repo' = ret.repo
  /\ phase' = "resolvedAgain"
  /\ UNCHANGED <<raw, calls, partialEval, validateVars, obj, operation, merged, origins, made>>

\* metadata := NewValidationMetadata(obj, operation, rules)
DoNewValidationMetadata ==
  /\ phase = "idle"
  /\ \E o \in Objects, op \in Operations :
       /\ obj' = o
       /\ operation' = op
       /\ made' = NewValidationMetadata(o, op, repo)
  /\ phase' = "described"
  /\ UNCHANGED <<raw, calls, partialEval, validateVars, repo, merged, origins, mergedAgain>>

\* The caller drops what the resolver returned; the repository stays.
DiscardResolved ==
  /\ phase \in {"resolved", "resolvedAgain", "described"}
  /\ phase' = "idle"
  /\ obj' = NoObject
  /\ operation' = ""
  /\ merged' = <<>>
  /\ origins' = <<>>
  /\ mergedAgain' = <<>>
  /\ made' = ValidationMetadata("", "", "", NoIndex, "")
  /\ UNCHANGED <<raw, calls, partialEval, validateVars, repo>>

NextResolver ==
  DoGetRulesFor \/ DoGetRulesForAgain \/ DoNewValidationMetadata \/ DiscardResolved

SpecResolver == InitResolver /\ [][NextResolver]_vars

\* ------------------------------------------------- reading a returned call
Returned == phase = "returned"

\* The call went past buildEnv, so the rule list was traversed.
Traversed == Returned /\ ~envFails

\* The engine refuses the text at env.Compile or at env.Program.
SetupFails(rule) == Compile(rule) # Nil \/ Program(rule) # Nil

\* The engine executes the text, and not to the boolean true.
ExecutesNotTrue(rule) ==
  /\ ~SetupFails(rule)
  /\ ~(Eval(rule).err = Nil /\ Eval(rule).out = "true")

\* The entry at a position of a rule tree.
RECURSIVE EntryAt(_, _)
EntryAt(rs, path) ==
  IF Len(path) = 1 THEN rs[path[1]]
  ELSE EntryAt(rs[path[1]].Then, Tail(path))

\* The position without its last index: the position of the parent.
Front(path) == SubSeq(path, 1, Len(path) - 1)

\* The sibling list the entry at a position is in.
SiblingsOf(rs, path) ==
  IF Len(path) = 1 THEN rs ELSE EntryAt(rs, Front(path)).Then

\* p comes strictly before q in depth-first, left-to-right pre-order.
RECURSIVE PathBefore(_, _)
PathBefore(p, q) ==
  IF p = <<>> THEN q # <<>>
  ELSE IF q = <<>> THEN FALSE
  ELSE IF p[1] # q[1] THEN p[1] < q[1]
  ELSE PathBefore(Tail(p), Tail(q))

Last(seq) == seq[Len(seq)]

\* The entry at position q was evaluated, or its text had been evaluated
\* before the traversal reached q.
EvaluatedOrSeen(q) ==
  \E m \in 1..Len(results) :
    \/ visited[m] = q
    \/ /\ results[m].Rule = EntryAt(rules, q).Rule
       /\ PathBefore(visited[m], q)

\* The positions of the siblings after the entry of results[k] that are enabled.
LaterEnabledSiblings(k) ==
  LET p == visited[k]
      sibs == SiblingsOf(rules, p)
  IN {Front(p) \o <<j>> : j \in {x \in (Last(p) + 1)..Len(sibs) : sibs[x].Enabled}}

\* The rule list is flat and its entries are enabled with distinct texts.
FlatDistinctEnabled(rs) ==
  /\ \A i \in 1..Len(rs) : rs[i].Enabled /\ rs[i].Then = <<>>
  /\ \A i, j \in 1..Len(rs) : rs[i].Rule = rs[j].Rule => i = j

\* ------------------------------------------------------------------ claims

\* C1: with partial evaluation off, Validate stops at the first entry, in
\* depth-first order, whose compile or program build fails: that entry's
\* result is the last one returned, it has Passed = FALSE and a non-nil
\* Error, the overall error is that Error, every other result belongs to an
\* entry before it in depth-first order and is no setup failure.
C1_HaltsAtFirstSetupFailure ==
  (Traversed /\ ~partialEval) =>
    \A k \in 1..Len(results) :
      SetupFails(results[k].Rule) =>
        /\ k = Len(results)
        /\ ~results[k].Passed
        /\ results[k].Error # Nil
        /\ err # Nil
        /\ err = results[k].Error
        /\ \A j \in 1..(k - 1) :
             /\ ~SetupFails(results[j].Rule)
             /\ PathBefore(visited[j], visited[k])

\* C1 witness: a non-partial call halted on a setup failure after at least
\* one other result, leaving an enabled top-level entry with a fresh text
\* unevaluated.
C1_Witness ==
  /\ Traversed /\ ~partialEval
  /\ Len(results) >= 2
  /\ SetupFails(Last(results).Rule)
  /\ \E j \in 1..Len(rules) :
       /\ j > Last(visited)[1]
       /\ rules[j].Enabled
       /\ rules[j].Rule \notin seen

\* C2: with partial evaluation on, once the environment is built, a compile
\* or build failure does not stop the traversal: the failing entry has one
\* result, with Passed = FALSE and a non-nil Error, every later enabled
\* sibling is evaluated unless its text was evaluated before, no overall error
\* is returned, and a flat list of n distinct enabled rules gives n results.
C2_PartialContinues ==
  (Traversed /\ partialEval) =>
    /\ \A k \in 1..Len(results) :
         SetupFails(results[k].Rule) =>
           /\ ~results[k].Passed
           /\ results[k].Error # Nil
           /\ \A m \in 1..Len(results) : visited[m] = visited[k] => m = k
           /\ \A q \in LaterEnabledSiblings(k) : EvaluatedOrSeen(q)
    /\ FlatDistinctEnabled(rules) => Len(results) = Len(rules)

\* C2 witness: a partial call whose first result is a setup failure and
\* which went on to evaluate a later sibling.
C2_Witness ==
  /\ Traversed /\ partialEval
  /\ Len(results) >= 2
  /\ SetupFails(results[1].Rule)
  /\ \E m \in 2..Len(results) :
       /\ Front(visited[m]) = Front(visited[1])
       /\ Last(visited[m]) > Last(visited[1])

\* C3 as claimed: a non-nil overall error implies partial evaluation is off
\* and some returned result is a compile or build failure; in partial mode
\* the overall error is always nil.
C3_OnlySetupFailuresAsClaimed ==
  Returned =>
    /\ err # Nil =>
         /\ ~partialEval
         /\ \E k \in 1..Len(results) : SetupFails(results[k].Rule)
    /\ partialEval => err = Nil

\* C3 amended: a non-nil overall error is either the error of building the
\* environment, returned in both modes with no result at all, or, with
\* partial evaluation off, the Error of the last returned result, which is a
\* compile or build failure; in partial mode the overall error is nil
\* whenever the environment was built.
C3_OverallErrorSources ==
  Returned =>
    /\ err # Nil =>
         \/ envFails /\ err = buildEnv(TRUE) /\ results = <<>>
         \/ /\ ~envFails /\ ~partialEval
            /\ Len(results) > 0
            /\ SetupFails(Last(results).Rule)
            /\ err = Last(results).Error
    /\ (partialEval /\ ~envFails) => err = Nil
    /\ envFails => err # Nil

\* C3 witness: a non-partial call returned, as its overall error, the
\* compile or build failure of a nested entry.
C3_Witness ==
  /\ Traversed /\ ~partialEval
  /\ err # Nil
  /\ Len(results) >= 2
  /\ Len(Last(visited)) >= 2
  /\ SetupFails(Last(results).Rule)

\* The overall error, if any, is not the doing of results[k]: the call did
\* not stop at results[k].
NotHaltedAt(k) ==
  err # Nil =>
    /\ k < Len(results)
    /\ SetupFails(Last(results).Rule)
    /\ err = Last(results).Error

\* C4 as claimed: in both modes an entry that executes to false, to a
\* non-boolean or to an execution error has Passed = FALSE, does not halt the
\* call or set the overall error, and every later enabled sibling is
\* evaluated unless its text was evaluated before.
C4_LogicalFailureAsClaimed ==
  Traversed =>
    \A k \in 1..Len(results) :
      ExecutesNotTrue(results[k].Rule) =>
        /\ ~results[k].Passed
        /\ NotHaltedAt(k)
        /\ \A q \in LaterEnabledSiblings(k) : EvaluatedOrSeen(q)

\* C4 amended: as claimed, but the later enabled siblings that are evaluated
\* (unless their text was evaluated before) are those the traversal reaches
\* before the call halts: all of them when no overall error is returned, and
\* otherwise (partial evaluation off, a later compile or build failure)
\* those that do not come after the entry at which the call halted.
C4_LogicalFailureNeverHalts ==
  Traversed =>
    \A k \in 1..Len(results) :
      ExecutesNotTrue(results[k].Rule) =>
        /\ ~results[k].Passed
        /\ NotHaltedAt(k)
        /\ \A q \in LaterEnabledSiblings(k) :
             (err = Nil \/ ~PathBefore(Last(visited), q)) => EvaluatedOrSeen(q)

\* C4 witness: an entry that did not execute to true was followed by the
\* evaluation of a later sibling, in a call that returned no overall error.
C4_Witness ==
  /\ Traversed /\ err = Nil
  /\ \E k \in 1..Len(results) :
       /\ ExecutesNotTrue(results[k].Rule)
       /\ k < Len(results)
       /\ Front(visited[k + 1]) = Front(visited[k])

\* The children of the entry of results[k] that are enabled and whose text
\* had not been evaluated when results[k] was appended.
FreshChildren(k) ==
  LET then == EntryAt(rules, visited[k]).Then
  IN {j \in 1..Len(then) :
        /\ then[j].Enabled
        /\ then[j].Rule \notin {results[x].Rule : x \in 1..k}}

\* C5: a Then list is traversed if and only if its entry was evaluated and
\* passed.  Every result of a child comes after a result of its parent with
\* Passed = TRUE; and right after a passing entry's result comes the result
\* of its first enabled child whose text was not evaluated before, if it has
\* one.  This holds in both modes.
C5_ChildrenIffParentPassed ==
  Traversed =>
    /\ \A m \in 1..Len(results) :
         Len(visited[m]) >= 2 =>
           \E k \in 1..(m - 1) :
             /\ visited[k] = Front(visited[m])
             /\ results[k].Passed
    /\ \A k \in 1..Len(results) :
         (results[k].Passed /\ FreshChildren(k) # {}) =>
           /\ k < Len(results)
           /\ Front(visited[k + 1]) = visited[k]
           /\ Last(visited[k + 1]) \in FreshChildren(k)
           /\ \A j \in FreshChildren(k) : Last(visited[k + 1]) <= j

\* C5 witness: one entry passed and its child was evaluated, another entry
\* with an enabled child did not pass.
C5_Witness ==
  /\ Traversed
  /\ \E m \in 1..Len(results) : Len(visited[m]) >= 2
  /\ \E k \in 1..Len(results) :
       /\ ~results[k].Passed
       /\ \E j \in 1..Len(EntryAt(rules, visited[k]).Then) :
            EntryAt(rules, visited[k]).Then[j].Enabled

\* C6: no two results of a call have the same Rule text, and every result
\* belongs to an enabled entry of the rule tree with that text.
C6_EachTextOnceNoDisabled ==
  Traversed =>
    /\ \A k, m \in 1..Len(results) : results[k].Rule = results[m].Rule => k = m
    /\ \A k \in 1..Len(results) :
         /\ EntryAt(rules, visited[k]).Enabled
         /\ EntryAt(rules, visited[k]).Rule = results[k].Rule

\* C6 witness: a text evaluated at the top level occurs again, enabled, in
\* a Then list that was traversed, and the list also has a disabled entry.
C6_Witness ==
  /\ Traversed
  /\ \E k, m \in 1..Len(results) :
       /\ Len(visited[k]) = 1
       /\ Len(visited[m]) = 1
       /\ results[m].Passed
       /\ \E j \in 1..Len(rules[visited[m][1]].Then) :
            /\ rules[visited[m][1]].Then[j].Enabled
            /\ rules[visited[m][1]].Then[j].Rule = results[k].Rule
  /\ \E i \in 1..Len(rules) : ~rules[i].Enabled

\* C7: for an entry that compiles and builds, Passed is TRUE if and only if
\* execution raised no error and the value is the boolean true; a non-boolean
\* value gives Passed = FALSE and a nil Error; an execution error gives
\* Passed = FALSE and that error as Error.
C7_PassedIffTrueNoError ==
  Traversed =>
    \A k \in 1..Len(results) :
      LET r == results[k]
          ev == Eval(r.Rule)
      IN ~SetupFails(r.Rule) =>
           /\ r.Passed <=> (ev.err = Nil /\ ev.out = "true")
           /\ (ev.err = Nil /\ ev.out \notin {"true", "false"}) =>
                (~r.Passed /\ r.Error = Nil)
           /\ ev.err # Nil => (~r.Passed /\ r.Error = ev.err)
           /\ ev.err = Nil => r.Error = Nil

\* C7 witness: one call holds a passing result, a non-boolean result and an
\* execution-error result.
C7_Witness ==
  /\ Traversed
  /\ \E k \in 1..Len(results) : results[k].Passed
  /\ \E k \in 1..Len(results) : results[k].Rule = TxtNonBool
  /\ \E k \in 1..Len(results) : results[k].Rule = TxtRuntimeErr

\* C8: for an entry that executes without error, a value other than true
\* gives a Message equal to the entry's FailureMessage and a nil Error; a
\* passing entry gives an empty Message whatever its FailureMessage.
C8_MessageOnLogicalFailure ==
  Traversed =>
    \A k \in 1..Len(results) :
      LET r == results[k]
          entry == EntryAt(rules, visited[k])
      IN (~SetupFails(r.Rule) /\ Eval(r.Rule).err = Nil) =>
           /\ Eval(r.Rule).out # "true" =>
                (r.Message = entry.FailureMessage /\ r.Error = Nil)
           /\ Eval(r.Rule).out = "true" => r.Message = ""

\* C8 witness: a passing entry with a configured message and an entry that
\* executed to false with a configured message, in one call.
C8_Witness ==
  /\ Traversed
  /\ \E k \in 1..Len(results) :
       /\ results[k].Passed
       /\ EntryAt(rules, visited[k]).FailureMessage # ""
  /\ \E k \in 1..Len(results) :
       /\ results[k].Rule = TxtFalse
       /\ results[k].Message # ""

\* C9 as claimed: the Message is populated only on a logical failure: it is
\* empty when execution raised an error, and empty for a compile or build
\* failure.
C9_MessageEmptyOnError ==
  Traversed =>
    \A k \in 1..Len(results) :
      LET r == results[k]
      IN /\ SetupFails(r.Rule) => r.Message = ""
         /\ (~SetupFails(r.Rule) /\ Eval(r.Rule).err # Nil) => r.Message = ""

\* The chain path of d "then" segments joined by " > ".
RECURSIVE ThenChain(_)
ThenChain(d) ==
  IF d = 0 THEN ""
  ELSE IF d = 1 THEN "then"
  ELSE ThenChain(d - 1) \o " > then"

\* The index of the result of the entry at a position (there is one).
ResultIndexOf(q) == CHOOSE k \in 1..Len(results) : visited[k] = q

\* The chain path of a parent extended by one "then" segment.
ThenBelow(parentPath) ==
  IF parentPath = "" THEN "then" ELSE parentPath \o " > then"

\* C10 as claimed: every child result has the parent's text as ParentRule
\* and the parent's ChainPath extended by one "then" segment as ChainPath;
\* from an empty ChainPath a normally executed result at depth d has d
\* "then" segments, and top-level results have an empty ChainPath and the
\* caller's ParentRule.  (The top-level clause is read in the claim's favour,
\* as being about normally executed results; a top-level compile failure
\* from an empty ChainPath has " > compileError", which is not empty either.)
C10_ChainPathAsClaimed ==
  Traversed =>
    \A m \in 1..Len(results) :
      LET md == results[m].Metadata
          depth == Len(visited[m]) - 1
      IN /\ depth >= 1 =>
              LET parent == results[ResultIndexOf(Front(visited[m]))]
              IN /\ md.ParentRule = parent.Rule
                 /\ md.ChainPath = ThenBelow(parent.Metadata.ChainPath)
         /\ (metadata.ChainPath = "" /\ ~SetupFails(results[m].Rule)) =>
              md.ChainPath = ThenChain(depth)
         /\ depth = 0 =>
              /\ md.ParentRule = metadata.ParentRule
              /\ (metadata.ChainPath = "" /\ ~SetupFails(results[m].Rule)) =>
                   md.ChainPath = ""

\* The marker a compile or build failure appends to the ChainPath.
FailureMarker(rule) ==
  IF Compile(rule) # Nil THEN " > compileError"
  ELSE IF Program(rule) # Nil THEN " > programError"
  ELSE ""

\* C10 amended: every child result has the parent's text as ParentRule; its
\* ChainPath is the parent's ChainPath extended by one "then" segment when
\* the child was executed, and that followed by " > compileError" or
\* " > programError" when the child's compile or build failed.  From an empty
\* ChainPath a normally executed result at depth d has d "then" segments.
\* Top-level results have the caller's ParentRule and the caller's ChainPath,
\* followed by the failure marker for a compile or build failure.
C10_ChainPathOfResults ==
  Traversed =>
    \A m \in 1..Len(results) :
      LET md == results[m].Metadata
          depth == Len(visited[m]) - 1
          marker == FailureMarker(results[m].Rule)
      IN /\ depth >= 1 =>
              LET parent == results[ResultIndexOf(Front(visited[m]))]
              IN /\ md.ParentRule = parent.Rule
                 /\ md.ChainPath = ThenBelow(parent.Metadata.ChainPath) \o marker
         /\ (metadata.ChainPath = "" /\ ~SetupFails(results[m].Rule)) =>
              md.ChainPath = ThenChain(depth)
         /\ depth = 0 =>
              /\ md.ParentRule = metadata.ParentRule
              /\ md.ChainPath = metadata.ChainPath \o marker

\* C10 witness: from an empty ChainPath, a normally executed result two
\* levels down.
C10_Witness ==
  /\ Traversed
  /\ metadata.ChainPath = ""
  /\ \E m \in 1..Len(results) :
       /\ Len(visited[m]) = 3
       /\ ~SetupFails(results[m].Rule)

\* The positions of the siblings that come after the entry at p or after one
\* of its ancestors, in their sibling lists.
LaterSiblingsOfAncestors(p) ==
  UNION {{SubSeq(p, 1, d - 1) \o <<j>> :
            j \in (p[d] + 1)..Len(SiblingsOf(rules, SubSeq(p, 1, d)))}
         : d \in 1..Len(p)}

\* p is the position q or the position of an ancestor of q.
IsPrefix(p, q) == Len(p) <= Len(q) /\ SubSeq(q, 1, Len(p)) = p

\* C18: with partial evaluation off, a compile or build failure of an entry
\* at any depth ends the call: the overall error is that failure, and no
\* entry that is a later sibling of the failing entry or of one of its
\* ancestors, nor any entry below such a sibling, has a result.
C18_NestedFailureEndsCall ==
  (Traversed /\ ~partialEval) =>
    \A k \in 1..Len(results) :
      SetupFails(results[k].Rule) =>
        /\ err = results[k].Error
        /\ err # Nil
        /\ \A q \in LaterSiblingsOfAncestors(visited[k]) :
             \A m \in 1..Len(results) : ~IsPrefix(q, visited[m])

\* C18 witness: the failing entry is nested, and an ancestor of it has a
\* later sibling that is enabled, with a text that was not evaluated.
C18_Witness ==
  /\ Traversed /\ ~partialEval
  /\ Len(results) >= 2
  /\ SetupFails(Last(results).Rule)
  /\ Len(Last(visited)) >= 2
  /\ \E j \in (Last(visited)[1] + 1)..Len(rules) :
       /\ rules[j].Enabled
       /\ rules[j].Rule \notin seen

\* C19: the results are in depth-first, left-to-right pre-order of the rule
\* tree: each result's entry comes before the next result's entry in that
\* order (so siblings are in list order and a subtree's results come before
\* the next sibling's), and the result right after a passing parent that has
\* evaluated children is that of a child of it.
C19_ResultsInPreOrder ==
  Traversed =>
    /\ \A k \in 1..(Len(results) - 1) : PathBefore(visited[k], visited[k + 1])
    /\ \A m \in 1..Len(results) :
         Len(visited[m]) >= 2 =>
           LET k == ResultIndexOf(Front(visited[m]))
           IN /\ k < m
              /\ results[k].Passed
              /\ Front(visited[k + 1]) = visited[k]
              /\ \A x \in (k + 1)..m : IsPrefix(visited[k], visited[x])

\* C19 witness: a passing parent, its child, and then the parent's next
\* sibling, in that order.
C19_Witness ==
  /\ Traversed
  /\ Len(results) = 3
  /\ visited = << <<1>>, <<1, 1>>, <<2>> >>

\* C20: every result has as RuleIndex the zero-based position of its entry
\* in its sibling list, skipped siblings counted, whether the entry failed
\* to compile or build or was executed, at the top level and below; no
\* result carries the sentinel -1.
C20_RuleIndexIsPosition ==
  Traversed =>
    \A k \in 1..Len(results) :
      /\ results[k].Metadata.RuleIndex = Last(visited[k]) - 1
      /\ results[k].Metadata.RuleIndex # NoIndex

\* C20 witness: a child result whose entry comes after a skipped sibling, in
\* a call whose metadata carried another RuleIndex.
C20_Witness ==
  /\ Traversed
  /\ metadata.RuleIndex = 7
  /\ \E k \in 1..Len(results) :
       /\ Len(visited[k]) = 2
       /\ Last(visited[k]) = 2
       /\ results[k].Metadata.RuleIndex = 1


\* ------------------------------------------ resolving and then validating
\* The entries (without their Then lists) of the repositories whose rules
\* are validated: a passing text enabled, disabled and with another message,
\* a second passing text, and a text that does not compile, enabled and
\* disabled.
PipelineLabels ==
  {[Rule |-> TxtTrue1, Enabled |-> TRUE, FailureMessage |-> MessageOf(TxtTrue1)],
   [Rule |-> TxtTrue1, Enabled |-> FALSE, FailureMessage |-> MessageOf(TxtTrue1)],
   [Rule |-> TxtTrue1, Enabled |-> TRUE, FailureMessage |-> OverrideMessage],
   [Rule |-> TxtTrue2, Enabled |-> TRUE, FailureMessage |-> MessageOf(TxtTrue2)],
   [Rule |-> TxtCompileErr, Enabled |-> TRUE, FailureMessage |-> MessageOf(TxtCompileErr)],
   [Rule |-> TxtCompileErr, Enabled |-> FALSE, FailureMessage |-> MessageOf(TxtCompileErr)]}

\* The records that are validated: a Sample, and a record of a type the
\* repository never holds.
PipelineObjects == {Record(SampleType, FALSE), Record("User", FALSE)}

\* The caller has built a repository, as in InitResolver, and a validator
\* with or without WithPartialEval.
InitPipeline ==
  /\ partialEval \in BOOLEAN
  /\ phase = "idle"
  /\ NoValidateCall
  /\ NoResolverCall
  /\ calls = NoCalls
  /\ raw = NoRawCall
  /\ \E hasSample, hasDefault, hasCreate \in BOOLEAN, n \in 0..MaxRepoNodes :
       \E depths \in [1..n -> 0..(MaxRepoNodes - 1)],
          labels \in [1..n -> PipelineLabels], split \in 0..n :
         /\ WellNested(depths, n)
         /\ split < n => depths[split + 1] = 0
         /\ ~hasSample => (n = 0 /\ ~hasDefault /\ ~hasCreate)
         /\ ~hasDefault => split = 0
         /\ ~hasCreate => split = n
         /\ repo = Repository(hasSample,
                     Buckets(hasDefault, RuleList(labels, depths, 1, split, 0),
                             hasCreate, RuleList(labels, depths, split + 1, n, 0)))

\* The Default bucket of the record's type followed by the bucket of the
\* operation, as they are in the repository; a missing type or bucket gives
\* no entry.
RawRules(o, op, rs) ==
  LET found == lookupStructRules(getStructName(o), rs)
  IN IF ~found.ok THEN <<>>
     ELSE lookupBucket(found.structRules, DefaultBucket).bucket
          \o lookupBucket(found.structRules, op).bucket

\* validator.Validate(obj, GetRulesFor(obj, operation, rules),
\* NewValidationMetadata(obj, operation, rules)), and the same call on the
\* unfiltered buckets.
DoResolveAndValidate ==
  /\ phase = "idle"
  /\ \E o \in PipelineObjects, op \in Operations, f \in BOOLEAN :
       LET resolved == GetRulesFor(o, op, repo)
           md == NewValidationMetadata(o, op, repo)
           ret == Validate(partialEval, f, resolved.merged, md)
           rawRet == Validate(partialEval, f, RawRules(o, op, repo), md)
       IN /\ obj' = o
          /\ operation' = op
          /\ merged' = resolved.merged
          /\ origins' = resolved.origins
          /\ made' = md
          /\ envFails' = f
          /\ rules' = resolved.merged
          /\ metadata' = md
          /\ results' = ret.results
          /\ err' = ret.err
          /\ seen' = ret.seen
          /\ visited' = ret.visited
          /\ raw' = RawCall(RawRules(o, op, repo), rawRet.results, rawRet.err)
  /\ phase' = "validated"
  /\ UNCHANGED <<partialEval, repo, mergedAgain, calls>>

\* The caller drops the rules and the results; the repository stays.
DiscardValidated ==
  /\ phase = "validated"
  /\ phase' = "idle"
  /\ envFails' = FALSE
  /\ rules' = <<>>
  /\ metadata' = ValidationMetadata("", "", "", NoIndex, "")
  /\ results' = <<>>
  /\ err' = Nil
  /\ seen' = {}
  /\ visited' = <<>>
  /\ obj' = NoObject
  /\ operation' = ""
  /\ merged' = <<>>
  /\ origins' = <<>>
  /\ made' = ValidationMetadata("", "", "", NoIndex, "")
  /\ raw' = NoRawCall
  /\ UNCHANGED <<partialEval, repo, mergedAgain, calls>>

NextPipeline == DoResolveAndValidate \/ DiscardValidated

SpecPipeline == InitPipeline /\ [][NextPipeline]_vars

\* --------------------------------------------- concurrent Validate calls
\* Two goroutines call Validate on the same Validator with the same record
\* and the same rule list.
Calls == {1, 2}

\* An activation of the closure eval: its entries, the index (from 1) of the
\* entry its loop is at, and its metadata.
Frame(entries, i, md) == [entries |-> entries, i |-> i, metadata |-> md]

\* The locals of one Validate call: where it is, the activations of eval
\* (the innermost last), results, seen, the metadata it was given, the error
\* an activation has just returned and the overall error.
CallLocals(pc, stack, res, seenTexts, md, ret, callErr) ==
  [pc |-> pc, stack |-> stack, results |-> res, seen |-> seenTexts,
   metadata |-> md, ret |-> ret, err |-> callErr]

\* Variant of callSeen in which seen belongs to the Validator and is shared
\* by its calls.
callSeen_sharedByValidator(cs, c) == UNION {cs[d].seen : d \in DOMAIN cs}

\* `seen := make(map[string]bool)` is a local of the call: the set the call
\* c tests is its own.
callSeen(cs, c) == cs[c].seen

\* The innermost activation of a call.
Top(stack) == stack[Len(stack)]

\* The stack without its innermost activation, and with the loop of its
\* innermost activation moved to the next entry.
Pop(stack) == SubSeq(stack, 1, Len(stack) - 1)
Advance(stack) == [stack EXCEPT ![Len(stack)].i = @ + 1]

\* Both calls are about to start, on a validator built with or without
\* WithPartialEval, each with its own metadata.
InitConcurrent ==
  /\ partialEval \in BOOLEAN
  /\ phase = "concurrent"
  /\ envFails \in BOOLEAN
  /\ metadata = ValidationMetadata("", "", "", NoIndex, "")
  /\ results = <<>>
  /\ err = Nil
  /\ seen = {}
  /\ visited = <<>>
  /\ repo = EmptyRepo
  /\ NoResolverCall
  /\ \E n \in 0..MaxSharedNodes :
       \E depths \in [1..n -> 0..(MaxSharedNodes - 1)], labels \in [1..n -> Labels] :
         /\ WellNested(depths, n)
         /\ rules = RuleList(labels, depths, 1, n, 0)
  /\ calls \in [Calls -> {CallLocals("start", <<>>, <<>>, {}, md, Nil, Nil) :
                            md \in InputMetadata}]
  /\ raw = NoRawCall

\* `env, err := buildEnv(obj); if err != nil { return nil, err }`, then the
\* locals and the first activation, eval(rules, metadata, "").
CallBuildEnv(c) ==
  /\ calls[c].pc = "start"
  /\ calls' = [calls EXCEPT ![c] =
       IF buildEnv(envFails) # Nil
       THEN CallLocals("returned", <<>>, <<>>, {}, @.metadata, Nil, buildEnv(envFails))
       ELSE CallLocals("loop", <<Frame(rules, 1, @.metadata)>>, <<>>, {},
                       @.metadata, Nil, Nil)]
  /\ UNCHANGED <<raw, partialEval, phase, validateVars, resolverVars>>

\* The head of the loop of the innermost activation: the end of the list
\* (the activation returns nil), the skip test, or the marking of the text.
CallLoop(c) ==
  /\ calls[c].pc = "loop"
  /\ LET top == Top(calls[c].stack)
     IN calls' = [calls EXCEPT ![c] =
          IF top.i > Len(top.entries)
          THEN [@ EXCEPT !.pc = "return", !.stack = Pop(@), !.ret = Nil]
          ELSE IF skipEntry(top.entries[top.i], callSeen(calls, c))
          THEN [@ EXCEPT !.stack = Advance(@)]
          ELSE [@ EXCEPT !.pc = "run",
                         !.seen = @ \cup {top.entries[top.i].Rule}]]
  /\ UNCHANGED <<raw, partialEval, phase, validateVars, resolverVars>>

\* The rest of the loop body for the marked entry: compile, build, execute,
\* append the result, and return, descend or go on.
CallRun(c) ==
  /\ calls[c].pc = "run"
  /\ LET top == Top(calls[c].stack)
         entry == top.entries[top.i]
         ev == Eval(entry.Rule)
     IN calls' = [calls EXCEPT ![c] =
          IF Compile(entry.Rule) # Nil
          THEN LET added == [@ EXCEPT !.results = Append(@,
                               compileErrorResult(entry, Compile(entry.Rule),
                                                  top.metadata, top.i - 1))]
               IN IF haltsOnSetupError(partialEval)
                  THEN [added EXCEPT !.pc = "return", !.stack = Pop(@),
                                     !.ret = Compile(entry.Rule)]
                  ELSE [added EXCEPT !.pc = "loop", !.stack = Advance(@)]
          ELSE IF Program(entry.Rule) # Nil
          THEN LET added == [@ EXCEPT !.results = Append(@,
                               programErrorResult(entry, Program(entry.Rule),
                                                  top.metadata, top.i - 1))]
               IN IF haltsOnSetupError(partialEval)
                  THEN [added EXCEPT !.pc = "return", !.stack = Pop(@),
                                     !.ret = Program(entry.Rule)]
                  ELSE [added EXCEPT !.pc = "loop", !.stack = Advance(@)]
          ELSE LET added == [@ EXCEPT !.results = Append(@,
                               executedResult(entry, ev, top.metadata, top.i - 1))]
               IN IF descends(passedOf(ev), entry)
                  THEN [added EXCEPT !.pc = "loop",
                          !.stack = Append(@, Frame(entry.Then, 1,
                                                    childMetadata(top.metadata, entry)))]
                  ELSE [added EXCEPT !.pc = "loop", !.stack = Advance(@)]]
  /\ UNCHANGED <<raw, partialEval, phase, validateVars, resolverVars>>

\* An activation has returned: to Validate, which returns results and the
\* error, or to the activation that called it, which returns the error too
\* (`if err != nil && !v.partialEval`) or goes on with its next entry.
CallReturn(c) ==
  /\ calls[c].pc = "return"
  /\ LET me == calls[c]
     IN calls' = [calls EXCEPT ![c] =
          IF me.stack = <<>>
          THEN [me EXCEPT !.pc = "returned", !.err = me.ret]
          ELSE IF propagatesChildError(me.ret, partialEval)
          THEN [me EXCEPT !.stack = Pop(me.stack)]
          ELSE [me EXCEPT !.pc = "loop", !.stack = Advance(me.stack), !.ret = Nil]]
  /\ UNCHANGED <<raw, partialEval, phase, validateVars, resolverVars>>

NextConcurrent ==
  \E c \in Calls : CallBuildEnv(c) \/ CallLoop(c) \/ CallRun(c) \/ CallReturn(c)

SpecConcurrent == InitConcurrent /\ [][NextConcurrent]_vars

\* ------------------------------------------------------ claims: GetRulesFor
\* A GetRulesFor call has returned.
Resolved == phase = "resolved"

\* The bucket `key` of the type of the record of the last call; empty when
\* the type or the bucket is missing.
BucketOf(key) ==
  LET name == getStructName(obj)
  IN IF name \in DOMAIN repo /\ key \in DOMAIN repo[name]
     THEN repo[name][key] ELSE <<>>

\* The texts of the top-level entries of a bucket, and of its enabled ones.
TextsOf(bucket) == {bucket[j].Rule : j \in 1..Len(bucket)}
EnabledTextsOf(bucket) ==
  {bucket[j].Rule : j \in {i \in 1..Len(bucket) : bucket[i].Enabled}}

\* The positions of the returned list that hold the text t.
MergedAt(t) == {k \in 1..Len(merged) : merged[k].Rule = t}

\* The returned list holds t once, in an entry built in the Default loop
\* that stands before every entry built in the operation loop.
OnceAmongDefault(t) ==
  /\ Cardinality(MergedAt(t)) = 1
  /\ \A k \in MergedAt(t) :
       /\ origins[k].loop = "Default"
       /\ \A m \in 1..Len(merged) : origins[m].loop = "operation" => k < m

\* The index of the first enabled entry of a bucket with the text t.
FirstEnabled(bucket, t) ==
  CHOOSE j \in 1..Len(bucket) :
    /\ bucket[j].Rule = t /\ bucket[j].Enabled
    /\ \A i \in 1..(j - 1) : ~(bucket[i].Rule = t /\ bucket[i].Enabled)

\* C11 as claimed: a text that appears in both the Default bucket and the
\* requested operation bucket is returned exactly once, among the
\* Default-derived entries.  Refuted: entries that are disabled in a bucket
\* are not returned from it.
C11_DedupAsClaimed ==
  Resolved =>
    \A t \in TextsOf(BucketOf(DefaultBucket)) \cap TextsOf(BucketOf(operation)) :
      OnceAmongDefault(t)

\* C11: a text that an enabled entry of the Default bucket and an enabled
\* entry of the requested operation bucket both hold is returned exactly
\* once: in the entry built from its first enabled occurrence in the Default
\* bucket, which stands before every operation-derived entry.
C11_DedupAcrossBuckets ==
  Resolved =>
    \A t \in EnabledTextsOf(BucketOf(DefaultBucket))
               \cap EnabledTextsOf(BucketOf(operation)) :
      /\ OnceAmongDefault(t)
      /\ \A k \in MergedAt(t) :
           /\ origins[k].index = FirstEnabled(BucketOf(DefaultBucket), t)
           /\ merged[k].FailureMessage =
                BucketOf(DefaultBucket)[origins[k].index].FailureMessage

\* C11 witness: the Create bucket repeats, with another message, a text the
\* Default bucket holds enabled; the returned list has the Default entry and
\* an entry of the Create bucket after it.
C11_Witness ==
  /\ Resolved
  /\ operation = CreateBucket
  /\ Len(merged) = 2
  /\ merged[1].Rule = TxtTrue1
  /\ merged[1].FailureMessage = MessageOf(TxtTrue1)
  /\ origins[2].loop = "operation"
  /\ \E j \in 1..Len(BucketOf(CreateBucket)) :
       /\ BucketOf(CreateBucket)[j].Rule = TxtTrue1
       /\ BucketOf(CreateBucket)[j].Enabled
       /\ BucketOf(CreateBucket)[j].FailureMessage = OverrideMessage


\* The positions of the entries of a rule list, nested ones included: the
\* path of indexes (from 1) that leads to each.
RECURSIVE PositionsOf(_)
PositionsOf(rs) ==
  UNION {{<<j>>} \cup {<<j>> \o p : p \in PositionsOf(rs[j].Then)} :
           j \in 1..Len(rs)}

\* The entry at position p of rs and all its ancestors are enabled.
Live(rs, p) == \A d \in 1..Len(p) : EntryAt(rs, SubSeq(p, 1, d)).Enabled

\* The position an entry at a live position p of rs has once the disabled
\* entries are taken out of every list: at each level, its index among the
\* enabled entries of its sibling list.
Rank(rs, p) ==
  [d \in 1..Len(p) |->
     Cardinality({j \in 1..p[d] : SiblingsOf(rs, SubSeq(p, 1, d))[j].Enabled})]

\* The repository entry the k-th returned entry was built from.
SourceOf(k) == BucketOf(origins[k].bucket)[origins[k].index]

\* C12: the returned list holds no disabled entry at any depth; each
\* returned entry is built from an enabled repository entry and holds, below
\* it, exactly the descendants of that entry that are enabled together with
\* all their ancestors, in their original order and nesting, with their
\* text and message.
C12_OnlyEnabledAtEveryDepth ==
  Resolved =>
    /\ \A p \in PositionsOf(merged) : EntryAt(merged, p).Enabled
    /\ \A k \in 1..Len(merged) :
         LET src == <<SourceOf(k)>>
             out == <<merged[k]>>
             live == {p \in PositionsOf(src) : Live(src, p)}
         IN /\ SourceOf(k).Enabled
            /\ PositionsOf(out) = {Rank(src, p) : p \in live}
            /\ \A p \in live :
                 /\ EntryAt(out, Rank(src, p)).Rule = EntryAt(src, p).Rule
                 /\ EntryAt(out, Rank(src, p)).FailureMessage =
                      EntryAt(src, p).FailureMessage

\* C12 witness: the Default bucket has one entry, enabled, whose only child
\* is disabled and has an enabled child of its own; the returned list is
\* that entry alone, without children.
C12_Witness ==
  /\ Resolved
  /\ operation = CreateBucket
  /\ Len(BucketOf(DefaultBucket)) = 1
  /\ BucketOf(DefaultBucket)[1].Enabled
  /\ Len(BucketOf(DefaultBucket)[1].Then) = 1
  /\ ~BucketOf(DefaultBucket)[1].Then[1].Enabled
  /\ Len(BucketOf(DefaultBucket)[1].Then[1].Then) = 1
  /\ BucketOf(DefaultBucket)[1].Then[1].Then[1].Enabled
  /\ Len(merged) = 1
  /\ merged[1].Then = <<>>

\* C12 second case: a disabled child stands before an enabled one, which is
\* returned as the first child.
C12_WitnessOrder ==
  /\ Resolved
  /\ Len(merged) = 1
  /\ Len(SourceOf(1).Then) = 2
  /\ ~SourceOf(1).Then[1].Enabled
  /\ SourceOf(1).Then[2].Enabled
  /\ Len(merged[1].Then) = 1
  /\ merged[1].Then[1].Rule = SourceOf(1).Then[2].Rule


\* The indexes of the enabled entries of a bucket, and of those that are the
\* first enabled entry of the bucket with their text.
EnabledIn(bucket) == {j \in 1..Len(bucket) : bucket[j].Enabled}
FirstEnabledIn(bucket) ==
  {j \in EnabledIn(bucket) :
     \A i \in EnabledIn(bucket) : i < j => bucket[i].Rule # bucket[j].Rule}

\* The indexes of the entries of the requested operation bucket that are
\* enabled and whose text no entry kept from the Default bucket and no
\* earlier enabled entry of the operation bucket has.
NewInOperation(defaultKept) ==
  {j \in FirstEnabledIn(BucketOf(operation)) :
     \A i \in defaultKept :
       BucketOf(DefaultBucket)[i].Rule # BucketOf(operation)[j].Rule}

\* The returned list is built from the entries defaultKept of the Default
\* bucket, in their order, and then from the entries opKept of the requested
\* operation bucket, in their order.
MergedIs(defaultKept, opKept) ==
  /\ {origins[k] : k \in 1..Len(merged)} =
       {[loop |-> "Default", bucket |-> DefaultBucket, index |-> j] :
          j \in defaultKept}
       \cup {[loop |-> "operation", bucket |-> operation, index |-> j] :
               j \in opKept}
  /\ Len(merged) = Cardinality(defaultKept) + Cardinality(opKept)
  /\ \A k, m \in 1..Len(merged) :
       k < m =>
         \/ origins[k].loop = "Default" /\ origins[m].loop = "operation"
         \/ origins[k].loop = origins[m].loop /\ origins[k].index < origins[m].index
  /\ \A k \in 1..Len(merged) : merged[k].Rule = SourceOf(k).Rule

\* C13 as claimed: the returned list is made of the enabled entries of the
\* Default bucket, in order, followed by the enabled and not already added
\* entries of the requested operation bucket, in order.  Refuted: an enabled
\* entry of the Default bucket whose text an earlier enabled entry of that
\* bucket has is not returned.
C13_MergeAsClaimed ==
  Resolved =>
    MergedIs(EnabledIn(BucketOf(DefaultBucket)),
             NewInOperation(EnabledIn(BucketOf(DefaultBucket))))

\* C13: the returned list is made of the enabled entries of the Default
\* bucket whose text was not already added, in their original order,
\* followed by the enabled entries of the requested operation bucket whose
\* text was not already added, in their original order; a bucket that does
\* not exist contributes nothing.
C13_MergeOrder ==
  Resolved =>
    MergedIs(FirstEnabledIn(BucketOf(DefaultBucket)),
             NewInOperation(FirstEnabledIn(BucketOf(DefaultBucket))))

\* C13 witness: the Default bucket holds a disabled entry and an enabled
\* one, the Create bucket an enabled entry with a new text; the returned
\* list is the Default entry followed by the Create entry.
C13_Witness ==
  /\ Resolved
  /\ operation = CreateBucket
  /\ Len(BucketOf(DefaultBucket)) = 2
  /\ ~BucketOf(DefaultBucket)[1].Enabled
  /\ Len(BucketOf(CreateBucket)) = 1
  /\ Len(merged) = 2
  /\ origins[1] = [loop |-> "Default", bucket |-> DefaultBucket, index |-> 2]
  /\ origins[2] = [loop |-> "operation", bucket |-> CreateBucket, index |-> 1]

\* C13 second case: the requested operation has no bucket and the Default
\* entries alone are returned.
C13_WitnessNoOperationBucket ==
  /\ Resolved
  /\ operation = "Update"
  /\ Len(merged) = 2
  /\ Len(BucketOf(CreateBucket)) = 1
  /\ BucketOf(CreateBucket)[1].Enabled


\* C14: when the type name of the record is not a key of the repository,
\* GetRulesFor returns the empty list, whatever the operation and whatever
\* the repository holds for other types.
C14_UnknownTypeEmpty ==
  Resolved => (getStructName(obj) \notin DOMAIN repo => merged = <<>>)

\* C14 witness: a record of a type without rules is resolved for "Default"
\* against a repository that holds Default rules for two other types.
C14_Witness ==
  /\ Resolved
  /\ getStructName(obj) = "User"
  /\ operation = DefaultBucket
  /\ DOMAIN repo = {SampleType, OrderType}
  /\ DefaultBucket \in DOMAIN repo[SampleType]
  /\ EnabledIn(repo[SampleType][DefaultBucket]) # {}
  /\ merged = <<>>

\* C14 second case: the Sample type itself is missing from the repository.
C14_WitnessSampleMissing ==
  /\ Resolved
  /\ getStructName(obj) = SampleType
  /\ SampleType \notin DOMAIN repo
  /\ operation = DefaultBucket
  /\ merged = <<>>


\* C15: no GetRulesFor call changes what the repository holds in memory,
\* over any sequence of calls, and a second call with the same record and
\* operation, run on the memory the first one left, returns a list equal to
\* the list the first returned.
C15_RepositoryReadOnly ==
  /\ [][repo' = repo]_vars
  /\ [](phase = "resolvedAgain" => mergedAgain = merged)

\* C15 witness: GetRulesFor was called twice on a repository entry that has
\* a disabled child; both calls returned the entry without that child and
\* the repository still holds the child.
C15_Witness ==
  /\ phase = "resolvedAgain"
  /\ Len(merged) >= 1
  /\ Len(SourceOf(1).Then) >= 1
  /\ ~SourceOf(1).Then[1].Enabled
  /\ merged[1].Then # SourceOf(1).Then
  /\ mergedAgain = merged


\* ------------------------------------------- claims: NewValidationMetadata
\* A NewValidationMetadata call has returned.
Described == phase = "described"

\* C16: the operation of the returned context is "Default" when the
\* record's type has no entry in the repository; with an entry and an empty
\* operation passed in, it is the name of the only bucket of the type when
\* there is exactly one and "Default" otherwise; with an entry and a
\* non-empty operation it is the operation passed in.  The context has the
\* type name, chainPath "", ruleIndex -1 and parentRule "".
C16_OperationResolution ==
  Described =>
    LET name == getStructName(obj)
    IN /\ made.StructName = name
       /\ made.ChainPath = ""
       /\ made.RuleIndex = -1
       /\ made.ParentRule = ""
       /\ name \notin DOMAIN repo => made.Operation = "Default"
       /\ (name \in DOMAIN repo /\ operation # "") => made.Operation = operation
       /\ (name \in DOMAIN repo /\ operation = "") =>
            /\ Cardinality(DOMAIN repo[name]) = 1 =>
                 DOMAIN repo[name] = {made.Operation}
            /\ Cardinality(DOMAIN repo[name]) # 1 => made.Operation = "Default"

\* C16 witness: the Sample type has the Create bucket only and no operation
\* is passed in; the context names Create.
C16_Witness ==
  /\ Described
  /\ getStructName(obj) = SampleType
  /\ operation = ""
  /\ SampleType \in DOMAIN repo
  /\ DOMAIN repo[SampleType] = {CreateBucket}
  /\ made.Operation = CreateBucket

\* C16 other cases: a type without entry and a non-empty operation; a type
\* with two buckets and no operation; a type with no bucket and no
\* operation.
C16_WitnessForced ==
  /\ Described
  /\ getStructName(obj) \notin DOMAIN repo
  /\ operation = CreateBucket
  /\ made.Operation = DefaultBucket

C16_WitnessTwoBuckets ==
  /\ Described
  /\ operation = ""
  /\ getStructName(obj) \in DOMAIN repo
  /\ DOMAIN repo[getStructName(obj)] = {DefaultBucket, CreateBucket}
  /\ made.Operation = DefaultBucket

C16_WitnessNoBucket ==
  /\ Described
  /\ operation = ""
  /\ getStructName(obj) \in DOMAIN repo
  /\ DOMAIN repo[getStructName(obj)] = {}
  /\ made.Operation = DefaultBucket


\* ------------------------------------------- claims: concurrent Validate
\* C17: under every interleaving of the steps of two Validate calls on the
\* same Validator and the same rule list, a call that has returned has the
\* result sequence and the overall error the call has when it runs alone.
C17_NoInterference ==
  \A c \in DOMAIN calls :
    calls[c].pc = "returned" =>
      LET alone == Validate(partialEval, envFails, rules, calls[c].metadata)
      IN /\ calls[c].results = alone.results
         /\ calls[c].err = alone.err

\* C17 witness: the first call has returned two results, one of them for a
\* nested entry, while the second call, started before the first returned,
\* is between marking the nested entry and running it.
C17_Witness ==
  /\ phase = "concurrent"
  /\ calls[1].pc = "returned"
  /\ Len(calls[1].results) = 2
  /\ Len(rules) = 1
  /\ calls[2].pc = "run"
  /\ Len(calls[2].stack) = 2
  /\ Len(calls[2].results) = 1
  /\ calls[2].seen = calls[1].seen


\* ------------------------------------------ claims: first occurrence wins
\* The entry out holds what the repository entry src holds once its disabled
\* descendants are taken out with their subtrees: the text and the message
\* of src and, below, the descendants of src that are enabled together with
\* all their ancestors below src, in their order and nesting.
BuiltFrom(out, src) ==
  LET kept == {p \in PositionsOf(src.Then) : Live(src.Then, p)}
  IN /\ out.Rule = src.Rule
     /\ out.FailureMessage = src.FailureMessage
     /\ PositionsOf(out.Then) = {Rank(src.Then, p) : p \in kept}
     /\ \A p \in kept :
          /\ EntryAt(out.Then, Rank(src.Then, p)).Rule = EntryAt(src.Then, p).Rule
          /\ EntryAt(out.Then, Rank(src.Then, p)).FailureMessage =
               EntryAt(src.Then, p).FailureMessage

\* The first enabled occurrence of the text t in Default-then-operation
\* order: the bucket name and the index; defined when there is one.
FirstOccurrence(t) ==
  IF t \in EnabledTextsOf(BucketOf(DefaultBucket))
  THEN [bucket |-> DefaultBucket, index |-> FirstEnabled(BucketOf(DefaultBucket), t)]
  ELSE [bucket |-> operation, index |-> FirstEnabled(BucketOf(operation), t)]

\* C21: the top-level entries of the returned list have pairwise distinct
\* texts; every text that an enabled top-level entry of the Default bucket
\* or of the requested operation bucket holds is returned, in the entry
\* built from its first enabled occurrence in Default-then-operation order,
\* with the message and the (filtered) children of that occurrence.
C21_FirstEnabledOccurrenceWins ==
  Resolved =>
    /\ \A k, m \in 1..Len(merged) : k # m => merged[k].Rule # merged[m].Rule
    /\ {merged[k].Rule : k \in 1..Len(merged)} =
         EnabledTextsOf(BucketOf(DefaultBucket))
           \cup EnabledTextsOf(BucketOf(operation))
    /\ \A k \in 1..Len(merged) :
         LET first == FirstOccurrence(merged[k].Rule)
         IN /\ origins[k].bucket = first.bucket
            /\ origins[k].index = first.index
            /\ BuiltFrom(merged[k], BucketOf(first.bucket)[first.index])

\* C21 witness: "Default" itself is requested and the Default bucket holds
\* one text three times: disabled, then enabled with one message, then
\* enabled with another; the returned list is the second entry alone.
C21_Witness ==
  /\ Resolved
  /\ operation = DefaultBucket
  /\ Len(BucketOf(DefaultBucket)) = 3
  /\ \A j \in 1..3 : BucketOf(DefaultBucket)[j].Rule = TxtTrue1
  /\ ~BucketOf(DefaultBucket)[1].Enabled
  /\ BucketOf(DefaultBucket)[2].FailureMessage = OverrideMessage
  /\ BucketOf(DefaultBucket)[3].FailureMessage = MessageOf(TxtTrue1)
  /\ BucketOf(DefaultBucket)[3].Enabled
  /\ Len(merged) = 1
  /\ merged[1].FailureMessage = OverrideMessage

\* C21 second case: the Create bucket repeats a text of the Default bucket
\* with children of its own; the returned entry has no children, as the
\* Default entry.
C21_WitnessChildrenDiffer ==
  /\ Resolved
  /\ operation = CreateBucket
  /\ Len(BucketOf(DefaultBucket)) = 1
  /\ BucketOf(DefaultBucket)[1].Enabled
  /\ BucketOf(DefaultBucket)[1].Then = <<>>
  /\ Len(BucketOf(CreateBucket)) = 1
  /\ BucketOf(CreateBucket)[1].Enabled
  /\ BucketOf(CreateBucket)[1].Rule = BucketOf(DefaultBucket)[1].Rule
  /\ Len(BucketOf(CreateBucket)[1].Then) = 1
  /\ BucketOf(CreateBucket)[1].Then[1].Enabled
  /\ merged = BucketOf(DefaultBucket)


\* --------------------------------------------- claims: first encounter wins
\* The traversal came to the entry at position q: every ancestor of q has a
\* result that passed.
CameTo(q) ==
  \A d \in 1..(Len(q) - 1) :
    \E m \in 1..Len(results) : visited[m] = SubSeq(q, 1, d) /\ results[m].Passed

\* C23: the texts of the results are the texts marked seen, whatever became
\* of them; a text has one result, at the first enabled position with that
\* text the traversal came to, and every other position with that text has
\* no result and no result below it, whatever its children; no result has
\* the text of one of its ancestors.
C23_FirstEncounterWins ==
  Traversed =>
    /\ seen = {results[k].Rule : k \in 1..Len(results)}
    /\ \A k \in 1..Len(results) :
         \A q \in PositionsOf(rules) :
           (q # visited[k] /\ EntryAt(rules, q).Rule = results[k].Rule) =>
             /\ \A m \in 1..Len(results) : ~IsPrefix(q, visited[m])
             /\ (EntryAt(rules, q).Enabled /\ PathBefore(q, visited[k])) => ~CameTo(q)
    /\ \A m \in 1..Len(results) :
         \A d \in 1..(Len(visited[m]) - 1) :
           EntryAt(rules, SubSeq(visited[m], 1, d)).Rule # results[m].Rule

\* C23 witness: in partial mode the first entry fails to compile and the
\* second, enabled, has the same text and an enabled child with a new text;
\* the only result is the first entry's.
C23_Witness ==
  /\ Traversed
  /\ partialEval
  /\ Len(rules) = 2
  /\ rules[1].Rule = TxtCompileErr /\ rules[1].Enabled
  /\ rules[2].Rule = TxtCompileErr /\ rules[2].Enabled
  /\ rules[1].Then = <<>>
  /\ Len(rules[2].Then) = 1
  /\ rules[2].Then[1].Enabled
  /\ rules[2].Then[1].Rule = TxtTrue1
  /\ Len(results) = 1
  /\ visited[1] = <<1>>
  /\ seen = {TxtCompileErr}

\* C23 second case: a passing entry has an enabled child with its own text,
\* which has an enabled child with a new text; the only result is the
\* parent's.
C23_WitnessAncestor ==
  /\ Traversed
  /\ Len(rules) = 1
  /\ rules[1].Rule = TxtTrue1 /\ rules[1].Enabled
  /\ Len(rules[1].Then) = 1
  /\ rules[1].Then[1].Rule = TxtTrue1 /\ rules[1].Then[1].Enabled
  /\ Len(rules[1].Then[1].Then) = 1
  /\ rules[1].Then[1].Then[1].Rule = TxtTrue2 /\ rules[1].Then[1].Then[1].Enabled
  /\ Len(results) = 1
  /\ results[1].Passed


\* ------------------------------------- claims: resolving before validating
\* Validate has returned for the resolved rules and for the unfiltered ones.
Validated == phase = "validated"

\* A result sequence with the ruleIndex of every result left out.
WithoutRuleIndex(res) ==
  [k \in 1..Len(res) |-> [res[k] EXCEPT !.Metadata.RuleIndex = NoIndex]]

\* C22: Validate on the list GetRulesFor returns and Validate on the Default
\* bucket followed by the operation bucket, disabled entries and repeated
\* texts included, return the same overall error and, the ruleIndex field
\* apart, the same results, with and without partial evaluation.
C22_FilteringIsRedundant ==
  Validated =>
    /\ err = raw.err
    /\ WithoutRuleIndex(results) = WithoutRuleIndex(raw.results)

\* C22 witness: the unfiltered list is a disabled entry, an enabled one and
\* an enabled one that repeats its text, the resolved list is one entry;
\* both calls return one result, with another rule index.
C22_Witness ==
  /\ Validated
  /\ ~envFails
  /\ operation = CreateBucket
  /\ Len(raw.rules) = 3
  /\ ~raw.rules[1].Enabled
  /\ raw.rules[3].Enabled
  /\ raw.rules[3].Rule = raw.rules[2].Rule
  /\ Len(rules) = 1
  /\ Len(results) = 1
  /\ Len(raw.results) = 1
  /\ results[1].Metadata.RuleIndex # raw.results[1].Metadata.RuleIndex

\* C22 second case: with partial evaluation off, the Default entry passes
\* and its enabled child, which stands after a disabled one, does not
\* compile; both calls end with the child's error.
C22_WitnessHalts ==
  /\ Validated
  /\ ~envFails
  /\ ~partialEval
  /\ Len(raw.rules) = 1
  /\ Len(raw.rules[1].Then) = 2
  /\ ~raw.rules[1].Then[1].Enabled
  /\ Len(rules) = 1
  /\ Len(rules[1].Then) = 1
  /\ Len(results) = 2
  /\ err # Nil
  /\ err = raw.err
  /\ results[2].Metadata.RuleIndex # raw.results[2].Metadata.RuleIndex

====
